---- MODULE Spec2Model ----
(***************************************************************************)
(* A model of the straume fantasy-console virtual machine (src/src/vm.rs): *)
(* the VM state, its public operations and the fetch-execute step          *)
(* run_cycle, followed by the properties checked against it.               *)
(*                                                                         *)
(* Memory is 65536 bytes in the code; the model keeps the bytes at the     *)
(* addresses in Addrs, one or more representatives of every class of       *)
(* address the code distinguishes (plain RAM, the VRAM region and its      *)
(* borders, each memory-mapped register, the two VBlank status bytes).     *)
(* Every address a modelled program or caller uses is in Addrs or is an    *)
(* out-of-range address (>= MEMORY_SIZE).                                  *)
(*                                                                         *)
(* A Rust panic aborts the process: it is recorded in the variable         *)
(* panicked, and no operation runs after it.                               *)
(***************************************************************************)
EXTENDS Integers, Sequences, FiniteSets, TLC

VARIABLES
    memory,          \* VM.memory, restricted to Addrs
    stack,           \* VM.stack: sequence of i32, top of stack last
    program,         \* VM.program: sequence of instructions
    pc,              \* VM.pc, 0-based index into program
    call_stack,      \* VM.call_stack: return addresses, top last
    halted,          \* VM.halted
    timer,           \* VM.timer (u64)
    screen_dirty,    \* VM.screen_dirty
    input_state,     \* VM.input_state (u8)
    panicked,        \* TRUE once an operation has panicked (process aborted)
    last_op,         \* history: name of the last operation called on the VM;
                     \* "run_cycle (idle)" is a run_cycle that returned early
    call_sites,      \* history: pc of the Call that pushed each call_stack entry
    loads,           \* history: number of load_program calls so far
    timer_base,      \* history: timer value set by the last Sleep (0 at creation)
    decay,           \* history: decay asked for since then (update_timer deltas
                     \* plus one per tick), counted up to timer_base
    latest_input,    \* history: argument of the latest set_input (0 if none)
    frame_counter,   \* main: frame_counter, kept modulo the tick period
    cycle,           \* main: index of the loop `for _ in 0..1000`
    at,              \* main: the statement of the loop body to execute next
    rendered         \* history: the VRAM bytes handed to the last render

vmvars == <<memory, stack, program, pc, call_stack, halted, timer,
            screen_dirty, input_state>>
histvars == <<last_op, call_sites, loads, timer_base, decay, latest_input>>
mainvars == <<frame_counter, cycle, at, rendered>>
vars == <<vmvars, panicked, histvars, mainvars>>

----------------------------------------------------------------------------
(* Constants of vm.rs *)

MEMORY_SIZE == 65536
VRAM_START == 61440
VRAM_SIZE == 1000
INPUT_REGISTER == 65520
OUTPUT_REGISTER == 65521
RANDOM_REGISTER == 65522
TIMER_REGISTER == 65523
VBLANK_FLAG == 65524
SAFE_TO_DRAW_FLAG == 65525

INPUT_NONE == 0
INPUT_UP == 10

\* i32 range of the operand stack
I32Max == 2147483647
I32Min == (-2147483647) - 1

\* value as u8
AsU8(value) == value % 256

InVRAM(addr) == addr >= VRAM_START /\ addr < VRAM_START + VRAM_SIZE

----------------------------------------------------------------------------
(* enum Instruction: a record with the variant's name and its operands *)

Nop == [op |-> "Nop", a |-> 0, b |-> 0]
Push(value) == [op |-> "Push", a |-> value, b |-> 0]
Pop == [op |-> "Pop", a |-> 0, b |-> 0]
Dup == [op |-> "Dup", a |-> 0, b |-> 0]
Swap == [op |-> "Swap", a |-> 0, b |-> 0]
Add == [op |-> "Add", a |-> 0, b |-> 0]
Sub == [op |-> "Sub", a |-> 0, b |-> 0]
Mul == [op |-> "Mul", a |-> 0, b |-> 0]
Div == [op |-> "Div", a |-> 0, b |-> 0]
Mod == [op |-> "Mod", a |-> 0, b |-> 0]
And == [op |-> "And", a |-> 0, b |-> 0]
Or == [op |-> "Or", a |-> 0, b |-> 0]
Xor == [op |-> "Xor", a |-> 0, b |-> 0]
Not == [op |-> "Not", a |-> 0, b |-> 0]
Eq == [op |-> "Eq", a |-> 0, b |-> 0]
Ne == [op |-> "Ne", a |-> 0, b |-> 0]
Lt == [op |-> "Lt", a |-> 0, b |-> 0]
Gt == [op |-> "Gt", a |-> 0, b |-> 0]
Lte == [op |-> "Lte", a |-> 0, b |-> 0]
Gte == [op |-> "Gte", a |-> 0, b |-> 0]
Jump(addr) == [op |-> "Jump", a |-> addr, b |-> 0]
JumpIf(addr) == [op |-> "JumpIf", a |-> addr, b |-> 0]
Call(addr) == [op |-> "Call", a |-> addr, b |-> 0]
Ret == [op |-> "Ret", a |-> 0, b |-> 0]
Load(addr) == [op |-> "Load", a |-> addr, b |-> 0]
Store(addr) == [op |-> "Store", a |-> addr, b |-> 0]
LoadImmediate(addr, value) == [op |-> "LoadImmediate", a |-> addr, b |-> value]
RandomNum(min, max) == [op |-> "RandomNum", a |-> min, b |-> max]
Sleep(ms) == [op |-> "Sleep", a |-> ms, b |-> 0]
ClearScreen == [op |-> "ClearScreen", a |-> 0, b |-> 0]
Halt == [op |-> "Halt", a |-> 0, b |-> 0]

BinaryOps == {"Add", "Sub", "Mul", "Div", "Mod", "And", "Or", "Xor"}
CompareOps == {"Eq", "Ne", "Lt", "Gt", "Lte", "Gte"}

----------------------------------------------------------------------------
(* i32 arithmetic of the closures handed to binary_op, on the mathematical *)
(* integers in I32Min..I32Max.  No intermediate value leaves that range.   *)

\* a + b overflows i32
AddOverflows(a, b) ==
    \/ a > 0 /\ b > 0 /\ a > I32Max - b
    \/ a < 0 /\ b < 0 /\ a < I32Min - b

\* a + b modulo 2^32, as a signed value
WrapAdd(a, b) ==
    IF a > 0 /\ b > 0 /\ a > I32Max - b THEN ((a + I32Min) + b) + I32Min
    ELSE IF a < 0 /\ b < 0 /\ a < I32Min - b THEN ((a - I32Min) + b) - I32Min
    ELSE a + b

\* a - b overflows i32
SubOverflows(a, b) ==
    \/ b < 0 /\ a > I32Max + b
    \/ b > 0 /\ a < I32Min + b

\* a - b modulo 2^32, as a signed value
WrapSub(a, b) ==
    IF b < 0 /\ a > I32Max + b THEN ((a + I32Min) - b) + I32Min
    ELSE IF b > 0 /\ a < I32Min + b THEN ((a - I32Min) - b) - I32Min
    ELSE a - b

\* The four bytes of the two's-complement representation of an i32,
\* least significant first, and the i32 with given bytes
Byte0(x) == x % 256
Byte1(x) == (x \div 256) % 256
Byte2(x) == (x \div 65536) % 256
Byte3(x) == (x \div 16777216) % 256

FromBytes(r0, r1, r2, r3) ==
    (IF r3 >= 128 THEN r3 - 256 ELSE r3) * 16777216 + r2 * 65536 + r1 * 256 + r0

\* a * b modulo 2^32, as a signed value (schoolbook product of the bytes,
\* the partial products of weight 2^32 and above dropped)
WrapMul(a, b) ==
    LET w0 == Byte0(a) * Byte0(b)
        w1 == Byte0(a) * Byte1(b) + Byte1(a) * Byte0(b)
        w2 == Byte0(a) * Byte2(b) + Byte1(a) * Byte1(b) + Byte2(a) * Byte0(b)
        w3 == Byte0(a) * Byte3(b) + Byte1(a) * Byte2(b) + Byte2(a) * Byte1(b)
              + Byte3(a) * Byte0(b)
        t1 == w1 + (w0 \div 256)
        t2 == w2 + (t1 \div 256)
        t3 == w3 + (t2 \div 256)
    IN  FromBytes(w0 % 256, t1 % 256, t2 % 256, t3 % 256)

\* a / b of Rust for b > 0: quotient truncated toward zero
TruncDivPos(a, b) ==
    IF a < 0 /\ a % b # 0 THEN (a \div b) + 1 ELSE a \div b

\* a % b of Rust for b > 0: remainder with the sign of the dividend
TruncRemPos(a, b) ==
    IF a < 0 /\ a % b # 0 THEN (a % b) - b ELSE a % b

\* a / b panics: division by zero, or i32::MIN / -1 (in every build profile)
DivPanics(a, b) == b = 0 \/ (a = I32Min /\ b = -1)

\* a / b where it does not panic
TruncDiv(a, b) ==
    IF b > 0 THEN TruncDivPos(a, b)
    ELSE IF b = I32Min THEN (IF a = I32Min THEN 1 ELSE 0)
    ELSE 0 - TruncDivPos(a, 0 - b)

\* a % b where it does not panic
TruncRem(a, b) ==
    IF b > 0 THEN TruncRemPos(a, b)
    ELSE IF b = I32Min THEN (IF a = I32Min THEN 0 ELSE a)
    ELSE TruncRemPos(a, 0 - b)

\* a * b overflows i32
MulOverflows(a, b) ==
    /\ a # 0
    /\ b # 0
    /\ \/ a = -1 /\ b = I32Min
       \/ b = -1 /\ a = I32Min
       \/ /\ ~(a = -1 /\ b = I32Min)
          /\ ~(b = -1 /\ a = I32Min)
          /\ TruncDiv(WrapMul(a, b), b) # a

\* !value
BitNot(value) == (-1) - value

\* x & y on bytes (0..255)
RECURSIVE ByteAnd(_, _)
ByteAnd(x, y) ==
    IF x = 0 \/ y = 0 THEN 0
    ELSE 2 * ByteAnd(x \div 2, y \div 2) + ((x % 2) * (y % 2))

\* x | y and x ^ y on bytes
ByteOr(x, y) == (x + y) - ByteAnd(x, y)
ByteXor(x, y) == (x + y) - 2 * ByteAnd(x, y)

BitAnd(a, b) ==
    FromBytes(ByteAnd(Byte0(a), Byte0(b)), ByteAnd(Byte1(a), Byte1(b)),
              ByteAnd(Byte2(a), Byte2(b)), ByteAnd(Byte3(a), Byte3(b)))

BitOr(a, b) ==
    FromBytes(ByteOr(Byte0(a), Byte0(b)), ByteOr(Byte1(a), Byte1(b)),
              ByteOr(Byte2(a), Byte2(b)), ByteOr(Byte3(a), Byte3(b)))

BitXor(a, b) ==
    FromBytes(ByteXor(Byte0(a), Byte0(b)), ByteXor(Byte1(a), Byte1(b)),
              ByteXor(Byte2(a), Byte2(b)), ByteXor(Byte3(a), Byte3(b)))

\* The closure of a binary instruction panics on (a, b).  Overflow of
\* +, - and * panics in a build with overflow checks (debug) and wraps in
\* one without (release); / and % panic in every build.
OpPanics(op, a, b, overflow_checks) ==
    CASE op = "Add" -> overflow_checks /\ AddOverflows(a, b)
      [] op = "Sub" -> overflow_checks /\ SubOverflows(a, b)
      [] op = "Mul" -> overflow_checks /\ MulOverflows(a, b)
      [] op = "Div" -> DivPanics(a, b)
      [] op = "Mod" -> DivPanics(a, b)
      [] OTHER -> FALSE

\* The value of the closure of a binary instruction on (a, b), where it returns
OpValue(op, a, b) ==
    CASE op = "Add" -> WrapAdd(a, b)
      [] op = "Sub" -> WrapSub(a, b)
      [] op = "Mul" -> WrapMul(a, b)
      [] op = "Div" -> TruncDiv(a, b)
      [] op = "Mod" -> TruncRem(a, b)
      [] op = "And" -> BitAnd(a, b)
      [] op = "Or" -> BitOr(a, b)
      [] op = "Xor" -> BitXor(a, b)

\* The closure of a comparison instruction on (a, b)
CmpValue(op, a, b) ==
    CASE op = "Eq" -> a = b
      [] op = "Ne" -> a # b
      [] op = "Lt" -> a < b
      [] op = "Gt" -> a > b
      [] op = "Lte" -> a <= b
      [] op = "Gte" -> a >= b

----------------------------------------------------------------------------
(* Bounds of the model *)

MaxStack == 3
MaxCallDepth == 2
MaxLoads == 2

----------------------------------------------------------------------------
(* The modelled memory cells: plain RAM (0, 0x100, 0x200), the first and   *)
(* last VRAM cell, the first cell after VRAM, the four registers and the   *)
(* two VBlank status bytes.                                                *)

Addrs ==
    {0, 256, 512,
     VRAM_START, VRAM_START + VRAM_SIZE - 1, VRAM_START + VRAM_SIZE,
     INPUT_REGISTER, OUTPUT_REGISTER, RANDOM_REGISTER, TIMER_REGISTER,
     VBLANK_FLAG, SAFE_TO_DRAW_FLAG}
    \cup {VRAM_START + i : i \in 1..11}

\* self.memory[addr] panics: index out of bounds
IndexPanics(addr) == addr >= MEMORY_SIZE

Top(s) == s[Len(s)]
Front(s) == SubSeq(s, 1, Len(s) - 1)

----------------------------------------------------------------------------
(* VM::new *)

new ==
    /\ memory = [a \in Addrs |-> 0]
    /\ stack = <<>>
    /\ program = <<>>
    /\ pc = 0
    /\ call_stack = <<>>
    /\ halted = FALSE
    /\ timer = 0
    /\ screen_dirty = FALSE
    /\ input_state = INPUT_NONE

(* VM::load_program *)

\* load_program also clearing the two stacks (mutant of load_program)
load_program_clears_stacks(prog) ==
    /\ program' = prog
    /\ pc' = 0
    /\ halted' = FALSE
    /\ stack' = <<>>
    /\ call_stack' = <<>>
    /\ UNCHANGED <<memory, timer, screen_dirty, input_state, panicked>>

load_program(prog) ==
    /\ program' = prog
    /\ pc' = 0
    /\ halted' = FALSE
    /\ UNCHANGED <<memory, stack, call_stack, timer, screen_dirty,
                   input_state, panicked>>

(* VM::read_memory *)

ReadPanics(addr) ==
    /\ addr \notin {INPUT_REGISTER, RANDOM_REGISTER, TIMER_REGISTER}
    /\ IndexPanics(addr)

\* read_memory without the arm of the input register (mutant of
\* read_memory)
read_memory_plain_input(addr) ==
    CASE addr = RANDOM_REGISTER -> memory[RANDOM_REGISTER]
      [] addr = TIMER_REGISTER -> AsU8(timer)
      [] OTHER -> memory[addr]

read_memory(addr) ==
    CASE addr = INPUT_REGISTER -> input_state
      [] addr = RANDOM_REGISTER -> memory[RANDOM_REGISTER]
      [] addr = TIMER_REGISTER -> AsU8(timer)
      [] OTHER -> memory[addr]

(* VM::write_memory: its effect on memory, screen_dirty and panicked.      *)
(* The output register prints the byte and stores nothing.                 *)

write_memory(addr, value) ==
    CASE addr = OUTPUT_REGISTER ->
            UNCHANGED <<memory, screen_dirty, panicked>>
      [] addr # OUTPUT_REGISTER /\ InVRAM(addr) ->
            /\ memory' = [memory EXCEPT ![addr] = value]
            /\ screen_dirty' = TRUE
            /\ UNCHANGED panicked
      [] OTHER ->
            IF IndexPanics(addr)
            THEN /\ panicked' = TRUE
                 /\ UNCHANGED <<memory, screen_dirty>>
            ELSE /\ memory' = [memory EXCEPT ![addr] = value]
                 /\ UNCHANGED <<screen_dirty, panicked>>

(* VM::update_timer *)

SaturatingSub(x, y) == IF x >= y THEN x - y ELSE 0

\* update_timer subtracting only when the delta fits (mutant of update_timer)
update_timer_unsaturated(delta_ms) ==
    /\ timer' = IF timer >= delta_ms THEN timer - delta_ms ELSE timer
    /\ UNCHANGED <<memory, stack, program, pc, call_stack, halted,
                   screen_dirty, input_state, panicked>>

update_timer(delta_ms) ==
    /\ timer' = IF timer > 0 THEN SaturatingSub(timer, delta_ms) ELSE timer
    /\ UNCHANGED <<memory, stack, program, pc, call_stack, halted,
                   screen_dirty, input_state, panicked>>

(* VM::set_input *)

set_input(input) ==
    /\ input_state' = input
    /\ UNCHANGED <<memory, stack, program, pc, call_stack, halted, timer,
                   screen_dirty, panicked>>

(* VM::check_input *)

check_input == input_state

(* VM::vblank_interrupt *)

\* vblank_interrupt without the reset of screen_dirty (mutant of
\* vblank_interrupt)
vblank_interrupt_keeps_dirty ==
    /\ timer' = IF timer > 0 THEN timer - 1 ELSE timer
    /\ memory' = [a \in Addrs |->
                    IF a = INPUT_REGISTER THEN input_state
                    ELSE IF a = VBLANK_FLAG THEN 1
                    ELSE IF a = SAFE_TO_DRAW_FLAG /\ screen_dirty THEN 1
                    ELSE memory[a]]
    /\ UNCHANGED <<stack, program, pc, call_stack, halted, input_state,
                   panicked, screen_dirty>>

vblank_interrupt ==
    /\ timer' = IF timer > 0 THEN timer - 1 ELSE timer
    /\ memory' = [a \in Addrs |->
                    IF a = INPUT_REGISTER THEN input_state
                    ELSE IF a = VBLANK_FLAG THEN 1
                    ELSE IF a = SAFE_TO_DRAW_FLAG /\ screen_dirty THEN 1
                    ELSE memory[a]]
    /\ screen_dirty' = FALSE
    /\ UNCHANGED <<stack, program, pc, call_stack, halted, input_state,
                   panicked>>

----------------------------------------------------------------------------
(* VM::run_cycle, one operator per match arm.  Each arm gives the step's   *)
(* effect on every field run_cycle can change; an arm that does not return *)
(* early falls through to self.pc += 1 unless it panicked.                 *)

\* Idle with the bound of the program off by one (mutant of Idle)
IdleOffByOne == halted \/ pc > Len(program)

\* the early return of run_cycle
Idle == halted \/ pc >= Len(program)

\* self.program[self.pc] panics: index out of bounds
FetchPanics == pc >= Len(program)

ExecNop ==
    /\ pc' = pc + 1
    /\ UNCHANGED <<memory, stack, call_stack, halted, timer, screen_dirty,
                   panicked>>

ExecPush(value) ==
    /\ stack' = Append(stack, value)
    /\ pc' = pc + 1
    /\ UNCHANGED <<memory, call_stack, halted, timer, screen_dirty, panicked>>

ExecPop ==
    /\ stack' = IF stack # <<>> THEN Front(stack) ELSE stack
    /\ pc' = pc + 1
    /\ UNCHANGED <<memory, call_stack, halted, timer, screen_dirty, panicked>>

ExecDup ==
    /\ stack' = IF stack # <<>> THEN Append(stack, Top(stack)) ELSE stack
    /\ pc' = pc + 1
    /\ UNCHANGED <<memory, call_stack, halted, timer, screen_dirty, panicked>>

ExecSwap ==
    /\ stack' = IF Len(stack) >= 2
                THEN LET len == Len(stack)
                     IN  [stack EXCEPT ![len] = stack[len - 1],
                                       ![len - 1] = stack[len]]
                ELSE stack
    /\ pc' = pc + 1
    /\ UNCHANGED <<memory, call_stack, halted, timer, screen_dirty, panicked>>

\* binary_op popping whatever operands there are before testing for two
\* (mutant of binary_op)
binary_op_pops_first(op) ==
    IF Len(stack) >= 2
    THEN LET b == stack[Len(stack)]
             a == stack[Len(stack) - 1]
             rest == SubSeq(stack, 1, Len(stack) - 2)
         IN  \E overflow_checks \in BOOLEAN :
               IF OpPanics(op, a, b, overflow_checks)
               THEN stack' = rest /\ panicked' = TRUE
               ELSE stack' = Append(rest, OpValue(op, a, b))
                    /\ UNCHANGED panicked
    ELSE stack' = <<>> /\ UNCHANGED panicked

\* VM::binary_op: its effect on stack and panicked (both operands are
\* popped before the closure runs)
binary_op(op) ==
    IF Len(stack) >= 2
    THEN LET b == stack[Len(stack)]
             a == stack[Len(stack) - 1]
             rest == SubSeq(stack, 1, Len(stack) - 2)
         IN  \E overflow_checks \in BOOLEAN :
               IF OpPanics(op, a, b, overflow_checks)
               THEN stack' = rest /\ panicked' = TRUE
               ELSE stack' = Append(rest, OpValue(op, a, b))
                    /\ UNCHANGED panicked
    ELSE UNCHANGED <<stack, panicked>>

\* VM::compare_op: its effect on stack
compare_op(op) ==
    IF Len(stack) >= 2
    THEN LET b == stack[Len(stack)]
             a == stack[Len(stack) - 1]
             rest == SubSeq(stack, 1, Len(stack) - 2)
         IN  stack' = Append(rest, IF CmpValue(op, a, b) THEN 1 ELSE 0)
    ELSE UNCHANGED stack

ExecBinary(op) ==
    /\ binary_op(op)
    /\ pc' = IF panicked' THEN pc ELSE pc + 1
    /\ UNCHANGED <<memory, call_stack, halted, timer, screen_dirty>>

ExecNot ==
    /\ stack' = IF stack # <<>>
                THEN Append(Front(stack), BitNot(Top(stack)))
                ELSE stack
    /\ pc' = pc + 1
    /\ UNCHANGED <<memory, call_stack, halted, timer, screen_dirty, panicked>>

ExecCompare(op) ==
    /\ compare_op(op)
    /\ pc' = pc + 1
    /\ UNCHANGED <<memory, call_stack, halted, timer, screen_dirty, panicked>>

ExecJump(addr) ==
    /\ pc' = addr
    /\ UNCHANGED <<memory, stack, call_stack, halted, timer, screen_dirty,
                   panicked>>

ExecJumpIf(addr) ==
    /\ IF stack # <<>>
       THEN /\ stack' = Front(stack)
            /\ pc' = IF Top(stack) # 0 THEN addr ELSE pc + 1
       ELSE /\ UNCHANGED stack
            /\ pc' = pc + 1
    /\ UNCHANGED <<memory, call_stack, halted, timer, screen_dirty, panicked>>

\* Call pushing its own address instead of the next one (mutant of ExecCall)
ExecCallPushesPc(addr) ==
    /\ call_stack' = Append(call_stack, pc)
    /\ pc' = addr
    /\ UNCHANGED <<memory, stack, halted, timer, screen_dirty, panicked>>

ExecCall(addr) ==
    /\ call_stack' = Append(call_stack, pc + 1)
    /\ pc' = addr
    /\ UNCHANGED <<memory, stack, halted, timer, screen_dirty, panicked>>

\* Ret halting the VM when the call stack is empty (mutant of ExecRet)
ExecRetHaltsOnEmpty ==
    /\ IF call_stack # <<>>
       THEN /\ call_stack' = Front(call_stack)
            /\ pc' = Top(call_stack)
            /\ UNCHANGED halted
       ELSE /\ UNCHANGED <<call_stack, pc>>
            /\ halted' = TRUE
    /\ UNCHANGED <<memory, stack, timer, screen_dirty, panicked>>

ExecRet ==
    /\ IF call_stack # <<>>
       THEN /\ call_stack' = Front(call_stack)
            /\ pc' = Top(call_stack)
       ELSE /\ UNCHANGED call_stack
            /\ pc' = pc + 1
    /\ UNCHANGED <<memory, stack, halted, timer, screen_dirty, panicked>>

ExecLoad(addr) ==
    IF ReadPanics(addr)
    THEN /\ panicked' = TRUE
         /\ UNCHANGED <<memory, stack, pc, call_stack, halted, timer,
                        screen_dirty>>
    ELSE /\ stack' = Append(stack, read_memory(addr))
         /\ pc' = pc + 1
         /\ UNCHANGED <<memory, call_stack, halted, timer, screen_dirty,
                        panicked>>

\* Store writing the popped value without truncating it to a byte (mutant
\* of ExecStore)
ExecStoreUntruncated(addr) ==
    /\ IF stack # <<>>
       THEN /\ stack' = Front(stack)
            /\ write_memory(addr, Top(stack))
       ELSE UNCHANGED <<stack, memory, screen_dirty, panicked>>
    /\ pc' = IF panicked' THEN pc ELSE pc + 1
    /\ UNCHANGED <<call_stack, halted, timer>>

ExecStore(addr) ==
    /\ IF stack # <<>>
       THEN /\ stack' = Front(stack)
            /\ write_memory(addr, AsU8(Top(stack)))
       ELSE UNCHANGED <<stack, memory, screen_dirty, panicked>>
    /\ pc' = IF panicked' THEN pc ELSE pc + 1
    /\ UNCHANGED <<call_stack, halted, timer>>

ExecLoadImmediate(addr, value) ==
    /\ write_memory(addr, AsU8(value))
    /\ pc' = IF panicked' THEN pc ELSE pc + 1
    /\ UNCHANGED <<stack, call_stack, halted, timer>>

\* RandomNum drawing from min..=max + 1 (mutant of ExecRandomNum)
ExecRandomNumOffByOne(min, max) ==
    IF min > max
    THEN /\ panicked' = TRUE
         /\ UNCHANGED <<memory, stack, pc, call_stack, halted, timer,
                        screen_dirty>>
    ELSE /\ \E num \in min..(max + 1) :
                write_memory(RANDOM_REGISTER, AsU8(num))
         /\ pc' = pc + 1
         /\ UNCHANGED <<stack, call_stack, halted, timer>>

\* gen_range panics on an empty range
ExecRandomNum(min, max) ==
    IF min > max
    THEN /\ panicked' = TRUE
         /\ UNCHANGED <<memory, stack, pc, call_stack, halted, timer,
                        screen_dirty>>
    ELSE /\ \E num \in min..max : write_memory(RANDOM_REGISTER, AsU8(num))
         /\ pc' = pc + 1
         /\ UNCHANGED <<stack, call_stack, halted, timer>>

ExecSleep(ms) ==
    /\ timer' = ms
    /\ pc' = pc + 1
    /\ UNCHANGED <<memory, stack, call_stack, halted, screen_dirty, panicked>>

ExecClearScreen ==
    /\ memory' = [a \in Addrs |-> IF InVRAM(a) THEN 0 ELSE memory[a]]
    /\ pc' = pc + 1
    /\ UNCHANGED <<stack, call_stack, halted, timer, screen_dirty, panicked>>

\* Halt without its return, falling through to self.pc += 1 (mutant of
\* ExecHalt)
ExecHaltFallsThrough ==
    /\ halted' = TRUE
    /\ pc' = pc + 1
    /\ UNCHANGED <<memory, stack, call_stack, timer, screen_dirty, panicked>>

ExecHalt ==
    /\ halted' = TRUE
    /\ UNCHANGED <<memory, stack, pc, call_stack, timer, screen_dirty,
                   panicked>>

run_cycle ==
    IF Idle
    THEN UNCHANGED <<vmvars, panicked>>
    ELSE IF FetchPanics
    THEN panicked' = TRUE /\ UNCHANGED vmvars
    ELSE LET ins == program[pc + 1]
         IN  /\ UNCHANGED <<program, input_state>>
             /\ CASE ins.op = "Nop" -> ExecNop
                  [] ins.op = "Push" -> ExecPush(ins.a)
                  [] ins.op = "Pop" -> ExecPop
                  [] ins.op = "Dup" -> ExecDup
                  [] ins.op = "Swap" -> ExecSwap
                  [] ins.op \in BinaryOps -> ExecBinary(ins.op)
                  [] ins.op = "Not" -> ExecNot
                  [] ins.op \in CompareOps -> ExecCompare(ins.op)
                  [] ins.op = "Jump" -> ExecJump(ins.a)
                  [] ins.op = "JumpIf" -> ExecJumpIf(ins.a)
                  [] ins.op = "Call" -> ExecCall(ins.a)
                  [] ins.op = "Ret" -> ExecRet
                  [] ins.op = "Load" -> ExecLoad(ins.a)
                  [] ins.op = "Store" -> ExecStore(ins.a)
                  [] ins.op = "LoadImmediate" -> ExecLoadImmediate(ins.a, ins.b)
                  [] ins.op = "RandomNum" -> ExecRandomNum(ins.a, ins.b)
                  [] ins.op = "Sleep" -> ExecSleep(ins.a)
                  [] ins.op = "ClearScreen" -> ExecClearScreen
                  [] ins.op = "Halt" -> ExecHalt

----------------------------------------------------------------------------
(* The inputs of the model: the programs handed to load_program and the    *)
(* arguments of the other operations.                                      *)

ScenarioA == <<LoadImmediate(VRAM_START, 72), Halt>>
ScenarioB == <<Push(3), Push(4), Add, Store(256)>>
ScenarioC == <<Call(2), Halt, LoadImmediate(512, 1), Ret>>
NestedCalls == <<Call(3), Halt, Ret, Call(2), Ret>>
Underflow == <<Add, Sub, Mul, Div, Mod, And, Or, Xor, Not>>
DivByZero == <<Push(1), Push(0), Div>>
ModByZero == <<Push(1), Push(0), Mod>>
JumpOut == <<Jump(2), Halt, Jump(7)>>
JumpIfOut == <<Push(0), JumpIf(9), Push(1), JumpIf(9)>>
CallOut == <<Call(7)>>
LoadOut == <<Load(MEMORY_SIZE)>>
StoreOut == <<Push(1), Store(MEMORY_SIZE)>>
LoadImmediateOut == <<LoadImmediate(MEMORY_SIZE, 1)>>
SleepPoll == <<Sleep(2), Load(TIMER_REGISTER), Pop>>
DrawClear == <<Push(72), Store(VRAM_START), ClearScreen>>
RandomByte ==
    <<RandomNum(71, 72), Load(RANDOM_REGISTER), Pop,
      RandomNum(328, 328), Load(RANDOM_REGISTER), Pop>>
Overflow == <<Push(I32Max), Push(1), Add, Push(-1), Div>>
InputPoke ==
    <<LoadImmediate(INPUT_REGISTER, INPUT_UP), Load(INPUT_REGISTER), Pop,
      Push(1), Store(INPUT_REGISTER), Load(INPUT_REGISTER), Pop>>
StoreLoad == <<Push(-249), Store(256), Load(256), Pop>>
RetEmpty == <<Ret, JumpIf(0), Push(1), Call(5)>>

Programs ==
    {ScenarioA, ScenarioB, ScenarioC, NestedCalls, Underflow, DivByZero,
     ModByZero, JumpOut, JumpIfOut, CallOut, LoadOut, StoreOut,
     LoadImmediateOut, SleepPoll, DrawClear, RandomByte, Overflow,
     InputPoke, StoreLoad, RetEmpty}

\* the programs loaded over a previous one: those whose instructions act on
\* the operands and return addresses the previous program left
Reloads == {ScenarioA, ScenarioB, NestedCalls, Underflow, RetEmpty}

\* update_timer arguments
Deltas == {0, 1, 3}

\* set_input arguments
Inputs == {INPUT_UP}

\* direct write_memory calls: <<addr, value>>
DirectWrites == {<<VRAM_START, 72>>}

Min(x, y) == IF x <= y THEN x ELSE y

\* &vm.memory[VRAM_START..VRAM_START + VRAM_SIZE], the slice render is given
VRAM == [a \in {x \in Addrs : InVRAM(x)} |-> memory[a]]

\* run_cycle is about to execute an instruction of the given variant
Executing(opname) ==
    ~halted /\ pc < Len(program) /\ program[pc + 1].op = opname

----------------------------------------------------------------------------
(* The operations as the actions of the model: the operation itself and    *)
(* the history it leaves.                                                  *)

Init ==
    /\ new
    /\ panicked = FALSE
    /\ last_op = "new"
    /\ call_sites = <<>>
    /\ loads = 0
    /\ timer_base = 0
    /\ decay = 0
    /\ latest_input = INPUT_NONE
    /\ frame_counter = 0
    /\ cycle = 0
    /\ at = "not in main"
    /\ rendered = VRAM

LoadProgram ==
    \E prog \in (IF loads = 0 THEN Programs ELSE Reloads) :
        /\ ~panicked
        /\ loads < MaxLoads
        /\ load_program(prog)
        /\ last_op' = "load_program"
        /\ loads' = loads + 1
        /\ UNCHANGED <<call_sites, timer_base, decay, latest_input, mainvars>>

RunCycle ==
    /\ ~panicked
    /\ run_cycle
    /\ Len(stack') <= MaxStack
    /\ Len(call_stack') <= MaxCallDepth
    /\ last_op' = IF Idle THEN "run_cycle (idle)" ELSE "run_cycle"
    /\ call_sites' = IF Executing("Call") THEN Append(call_sites, pc)
                     ELSE IF Executing("Ret") /\ call_stack # <<>>
                          THEN Front(call_sites)
                          ELSE call_sites
    /\ timer_base' = IF Executing("Sleep") THEN timer' ELSE timer_base
    /\ decay' = IF Executing("Sleep") THEN 0 ELSE decay
    /\ UNCHANGED <<loads, latest_input, mainvars>>

WriteMemory ==
    \E w \in DirectWrites :
        /\ ~panicked
        /\ write_memory(w[1], w[2])
        /\ UNCHANGED <<stack, program, pc, call_stack, halted, timer,
                       input_state>>
        /\ last_op' = "write_memory"
        /\ UNCHANGED <<call_sites, loads, timer_base, decay, latest_input,
                       mainvars>>

UpdateTimer ==
    \E delta_ms \in Deltas :
        /\ ~panicked
        /\ update_timer(delta_ms)
        /\ last_op' = "update_timer"
        /\ decay' = Min(decay + delta_ms, timer_base)
        /\ UNCHANGED <<call_sites, loads, timer_base, latest_input, mainvars>>

SetInput ==
    \E input \in Inputs :
        /\ ~panicked
        /\ set_input(input)
        /\ last_op' = "set_input"
        /\ latest_input' = input
        /\ UNCHANGED <<call_sites, loads, timer_base, decay, mainvars>>

VblankInterrupt ==
    /\ ~panicked
    /\ vblank_interrupt
    /\ last_op' = "vblank_interrupt"
    /\ decay' = Min(decay + 1, timer_base)
    /\ UNCHANGED <<call_sites, loads, timer_base, latest_input, mainvars>>

Next ==
    \/ LoadProgram
    \/ RunCycle
    \/ WriteMemory
    \/ UpdateTimer
    \/ SetInput
    \/ VblankInterrupt

Spec == Init /\ [][Next]_vars

----------------------------------------------------------------------------
(* main: the VM as main creates it and the loop 'running that drives it.   *)
(* One action per statement of the loop body; the variable at names the    *)
(* statement to execute next.  frame_counter is kept modulo TICK_PERIOD,   *)
(* the loop only testing frame_counter % 60.                               *)

CYCLES_PER_FRAME == 1000
TICK_PERIOD == 60

\* the program main loads
sample_program ==
    <<LoadImmediate(VRAM_START, 72),
      LoadImmediate(VRAM_START + 1, 101),
      LoadImmediate(VRAM_START + 2, 108),
      LoadImmediate(VRAM_START + 3, 108),
      LoadImmediate(VRAM_START + 4, 111),
      LoadImmediate(VRAM_START + 5, 32),
      LoadImmediate(VRAM_START + 6, 87),
      LoadImmediate(VRAM_START + 7, 111),
      LoadImmediate(VRAM_START + 8, 114),
      LoadImmediate(VRAM_START + 9, 108),
      LoadImmediate(VRAM_START + 10, 100),
      LoadImmediate(VRAM_START + 11, 33),
      RandomNum(65, 90),
      Load(RANDOM_REGISTER),
      Store(VRAM_START + 5),
      Halt>>

\* a program in its place that draws once a key is pressed
WaitKey ==
    <<Load(INPUT_REGISTER), JumpIf(3), Jump(0),
      LoadImmediate(VRAM_START, 72), Halt>>

MainPrograms == {sample_program, WaitKey}

\* the BIOS files read by load_bios, as byte sequences
BiosFiles == {<<>>, <<1>>}

\* elapsed milliseconds between two iterations
MainDeltas == {16, 17}

\* VM::load_bios: the memory after copying the file to address 0
load_bios(bios) ==
    [a \in Addrs |-> IF a < Len(bios) THEN bios[a + 1] ELSE 0]

MainInit ==
    \E bios \in BiosFiles, prog \in MainPrograms :
        /\ memory = load_bios(bios)
        /\ stack = <<>>
        /\ program = prog
        /\ pc = 0
        /\ call_stack = <<>>
        /\ halted = FALSE
        /\ timer = 0
        /\ screen_dirty = FALSE
        /\ input_state = INPUT_NONE
        /\ panicked = FALSE
        /\ last_op = "load_program"
        /\ call_sites = <<>>
        /\ loads = 1
        /\ timer_base = 0
        /\ decay = 0
        /\ latest_input = INPUT_NONE
        /\ frame_counter = 0
        /\ cycle = 0
        /\ at = "poll_events"
        /\ rendered = [a \in {x \in Addrs : InVRAM(x)} |-> 0]

\* for event in event_pump.poll_iter(): no key, a key, or Quit / Escape
MainPollEvents ==
    /\ at = "poll_events"
    /\ ~panicked
    /\ \/ /\ UNCHANGED <<vmvars, panicked>>
          /\ at' = "update_timer"
       \/ /\ \E input \in Inputs : set_input(input)
          /\ at' = "update_timer"
       \/ /\ UNCHANGED <<vmvars, panicked>>
          /\ at' = "quit"
    /\ UNCHANGED <<histvars, frame_counter, cycle, rendered>>

\* vm.update_timer(delta.as_millis() as u64)
MainUpdateTimer ==
    /\ at = "update_timer"
    /\ \E delta_ms \in MainDeltas : update_timer(delta_ms)
    /\ at' = "run_cycles"
    /\ cycle' = 0
    /\ UNCHANGED <<histvars, frame_counter, rendered>>

\* one iteration of for _ in 0..1000 { if !vm.halted { vm.run_cycle() } };
\* on a halted VM every iteration left does nothing, and the loop is left
\* in one step
MainRunCycle ==
    /\ at = "run_cycles"
    /\ ~panicked
    /\ IF halted
       THEN /\ UNCHANGED <<vmvars, panicked>>
            /\ cycle' = CYCLES_PER_FRAME
       ELSE /\ run_cycle
            /\ cycle' = cycle + 1
    /\ at' = IF cycle' = CYCLES_PER_FRAME THEN "frame_counter"
             ELSE "run_cycles"
    /\ UNCHANGED <<histvars, frame_counter, rendered>>

\* frame_counter += 1; if frame_counter % 60 == 0 { vm.vblank_interrupt() }
MainVblank ==
    /\ at = "frame_counter"
    /\ frame_counter' = (frame_counter + 1) % TICK_PERIOD
    /\ IF frame_counter' = 0
       THEN vblank_interrupt
       ELSE UNCHANGED <<vmvars, panicked>>
    /\ at' = "render"
    /\ UNCHANGED <<histvars, cycle, rendered>>

\* if vm.screen_dirty { ... renderer.render(VRAM) ...;
\*                      vm.screen_dirty = false }, then the sleep that ends
\* the iteration
MainRender ==
    /\ at = "render"
    /\ IF screen_dirty
       THEN /\ rendered' = VRAM
            /\ screen_dirty' = FALSE
       ELSE UNCHANGED <<rendered, screen_dirty>>
    /\ at' = "poll_events"
    /\ UNCHANGED <<memory, stack, program, pc, call_stack, halted, timer,
                   input_state, panicked, histvars, frame_counter, cycle>>

MainNext ==
    \/ MainPollEvents
    \/ MainUpdateTimer
    \/ MainRunCycle
    \/ MainVblank
    \/ MainRender

MainSpec == MainInit /\ [][MainNext]_vars

----------------------------------------------------------------------------
(* Properties *)

\* the step is a call of run_cycle
ByRunCycle == last_op' \in {"run_cycle", "run_cycle (idle)"}

\* the instruction run_cycle is about to execute
Current == program[pc + 1]

\* C1: once Halt has executed, every further run_cycle is a no-op: the
\* program counter, the operand stack, the call stack and the memory keep
\* the values they had right after the Halt, and the program counter still
\* points at the Halt instruction.
C1_HaltedRunCycleIsNoOp ==
    [][ /\ (Executing("Halt") /\ ByRunCycle) =>
            (halted' /\ pc' = pc /\ UNCHANGED <<stack, call_stack, memory>>)
        /\ (halted /\ ByRunCycle) =>
            /\ UNCHANGED <<pc, stack, call_stack, memory, halted>>
            /\ pc < Len(program)
            /\ Current.op = "Halt"
      ]_vars

\* C1 witness: run_cycle was called on a halted VM and returned early
C1_Witness ==
    /\ halted
    /\ last_op = "run_cycle (idle)"
    /\ Current.op = "Halt"

\* the step writes a byte inside the VRAM region
VramWriteStep ==
    \/ /\ ByRunCycle
       /\ \/ Executing("Store") /\ stack # <<>> /\ InVRAM(Current.a)
          \/ Executing("LoadImmediate") /\ InVRAM(Current.a)
          \/ Executing("ClearScreen")
    \/ /\ last_op' = "write_memory"
       /\ \A w \in DirectWrites : InVRAM(w[1])

\* C2: every operation that writes a byte at an address inside the VRAM
\* region leaves screen_dirty true: Store, LoadImmediate, a direct
\* write_memory and ClearScreen alike.
C2_VramWriteSetsDirty ==
    [][ VramWriteStep => screen_dirty' ]_vars

\* run_cycle is about to execute the given variant on a stack of fewer
\* than n elements
Underflows(opname, n) == Executing(opname) /\ Len(stack) < n

\* the step leaves the operand stack and halted alone and advances pc by one
SilentNoOp == stack' = stack /\ ~halted' /\ ~panicked' /\ pc' = pc + 1

\* C3 as stated: each of Add, Sub, Mul, Div, Mod, And, Or, Xor and Not,
\* executed on a stack of fewer than 2 elements, leaves the stack unchanged,
\* does not halt and advances the program counter by one.
C3_UnderflowIsNoOp ==
    [][ ((\E op \in BinaryOps \cup {"Not"} : Underflows(op, 2)) /\ ByRunCycle)
            => SilentNoOp
      ]_vars

\* C3 amended: each of Add, Sub, Mul, Div, Mod, And, Or and Xor executed on a
\* stack of fewer than 2 elements, and Not executed on an empty stack, leaves
\* the stack unchanged, does not halt and advances the program counter by
\* one.  (Not is unary: on a stack of one element it replaces the top by its
\* complement.)
C3_UnderflowIsNoOpAmended ==
    [][ /\ ((\E op \in BinaryOps : Underflows(op, 2)) /\ ByRunCycle)
            => SilentNoOp
        /\ (Underflows("Not", 1) /\ ByRunCycle) => SilentNoOp
        /\ (Executing("Not") /\ Len(stack) = 1 /\ ByRunCycle)
            => (stack' = <<BitNot(stack[1])>> /\ ~halted' /\ pc' = pc + 1)
      ]_vars

\* C3 witness: the eight binary instructions of Underflow have run on a
\* stack of one element
C3_Witness ==
    /\ program = Underflow
    /\ pc = 8
    /\ Len(stack) = 1
    /\ last_op = "run_cycle"
    /\ ~halted
    /\ ~panicked

\* C4: Div or Mod executed with at least two stack elements and a zero
\* divisor on top ends in a controlled error state: the VM is halted, and
\* the step does not panic.
C4_DivisionByZeroIsControlled ==
    [][ ( /\ Executing("Div") \/ Executing("Mod")
          /\ Len(stack) >= 2
          /\ Top(stack) = 0
          /\ ByRunCycle )
            => (halted' /\ ~panicked')
      ]_vars

\* run_cycle is about to redirect the program counter outside the program
JumpsOut ==
    /\ \/ Executing("Jump")
       \/ Executing("JumpIf") /\ stack # <<>> /\ Top(stack) # 0
       \/ Executing("Call")
    /\ Current.a >= Len(program)

\* C5: Jump, a taken JumpIf or Call whose target is outside the program
\* is a controlled failure: the VM enters an error state that is neither
\* normal running (pc inside the program) nor graceful exhaustion (not
\* halted, pc outside the program).
C5_JumpOutIsControlled ==
    [][ (JumpsOut /\ ByRunCycle) => (halted' /\ ~panicked') ]_vars

\* run_cycle is about to access memory outside the address space
AccessesOut ==
    /\ \/ Executing("Load")
       \/ Executing("Store") /\ stack # <<>>
       \/ Executing("LoadImmediate")
    /\ Current.a >= MEMORY_SIZE

\* C6: Load, Store (with a non-empty stack) or LoadImmediate with an address
\* outside the address space is a controlled failure: the step does not
\* panic, and it leaves the memory alone.
C6_AccessOutIsControlled ==
    [][ (AccessesOut /\ ByRunCycle) => (~panicked' /\ memory' = memory) ]_vars

\* C7: the Ret matching a Call executed at program counter p sets the
\* program counter to p + 1 and leaves the call stack at the depth it had
\* before the Call (call_sites holds p for every Call not yet returned
\* from); and ScenarioC ends halted at the instruction at address 1 with
\* memory[0x200] = 1.
C7_RetResumesAfterCall ==
    /\ [](Len(call_sites) = Len(call_stack))
    /\ []((program = ScenarioC /\ halted) => (memory[512] = 1 /\ pc = 1))
    /\ [][ (Executing("Ret") /\ call_stack # <<>> /\ ByRunCycle) =>
              /\ pc' = Top(call_sites) + 1
              /\ Len(call_stack') = Len(call_sites) - 1
         ]_vars

\* C7 witness: in NestedCalls the inner Ret has returned behind the inner
\* Call (at 3) while the outer Call (at 0) is still open
C7_Witness ==
    /\ program = NestedCalls
    /\ pc = 4
    /\ call_stack = <<1>>
    /\ call_sites = <<0>>
    /\ last_op = "run_cycle"

\* C8: once the program counter is at or beyond the end of the program and
\* the VM is not halted, run_cycle changes nothing, and halted stays false.
C8_ExhaustedRunCycleIsNoOp ==
    [][ (~halted /\ pc >= Len(program) /\ ByRunCycle)
            => (UNCHANGED vmvars /\ ~halted' /\ ~panicked')
      ]_vars

\* C8 witness: run_cycle returned early on a VM that ran off its program
C8_Witness ==
    /\ ~halted
    /\ program # <<>>
    /\ pc >= Len(program)
    /\ last_op = "run_cycle (idle)"

\* C9: with t the timer value set by the last Sleep, and d the sum of the
\* update_timer deltas and one per vblank_interrupt since then, the timer is
\* max(0, t - d) = t - min(t, d) (decay is min(t, d)); it is never negative,
\* and once 0 it stays 0 until a Sleep executes.
C9_TimerSaturates ==
    /\ [](timer >= 0 /\ decay <= timer_base /\ timer = timer_base - decay)
    /\ [][ (timer = 0 /\ ~(Executing("Sleep") /\ ByRunCycle)) => timer' = 0
         ]_vars

\* C9 witness: a delta larger than the remaining time has brought the
\* timer of the last Sleep to 0
C9_Witness ==
    /\ timer_base = 2
    /\ timer = 0
    /\ last_op = "update_timer"

\* C10: after vblank_interrupt, memory[0xFFF4] is 1, memory[0xFFF0] is the
\* input state and screen_dirty is false; screen_dirty is false after new.
C10_VblankPostcondition ==
    /\ last_op = "vblank_interrupt" =>
          /\ memory[VBLANK_FLAG] = 1
          /\ memory[INPUT_REGISTER] = input_state
          /\ ~screen_dirty
    /\ last_op = "new" => ~screen_dirty

\* C10 witness: vblank_interrupt ran on a halted VM whose screen was dirty
\* and whose input had been set
C10_Witness ==
    /\ last_op = "vblank_interrupt"
    /\ halted
    /\ input_state = INPUT_UP
    /\ memory[SAFE_TO_DRAW_FLAG] = 1

\* C11: immediately after a vblank_interrupt, memory[0xFFF5] is 1 only if
\* screen_dirty was true at that call (no program of the model writes
\* 0xFFF5 itself).
C11_SafeToDrawReflectsLastInterval ==
    [][ (last_op' = "vblank_interrupt" /\ memory'[SAFE_TO_DRAW_FLAG] = 1)
            => screen_dirty
      ]_vars

\* C12 as stated: for every min <= max, executing RandomNum(min, max) leaves
\* in the random register a value v with min <= v <= max, and
\* Load(0xFFF2) pushes the value of the register.
C12_RandomNumInRange ==
    [][ /\ (Executing("RandomNum") /\ Current.a <= Current.b /\ ByRunCycle)
            => /\ ~panicked'
               /\ memory'[RANDOM_REGISTER] >= Current.a
               /\ memory'[RANDOM_REGISTER] <= Current.b
        /\ (Executing("Load") /\ Current.a = RANDOM_REGISTER /\ ByRunCycle)
            => stack' = Append(stack, memory[RANDOM_REGISTER])
      ]_vars

\* C12 amended: for 0 <= min <= max <= 255, executing RandomNum(min, max)
\* leaves in the random register a value v with min <= v <= max; for every
\* min <= max the register holds a byte congruent modulo 256 to a number of
\* min..max; and Load(0xFFF2) pushes the value of the register.
C12_RandomNumInRangeAmended ==
    [][ /\ ( /\ Executing("RandomNum")
              /\ 0 <= Current.a /\ Current.a <= Current.b /\ Current.b <= 255
              /\ ByRunCycle )
            => /\ ~panicked'
               /\ memory'[RANDOM_REGISTER] >= Current.a
               /\ memory'[RANDOM_REGISTER] <= Current.b
        /\ (Executing("RandomNum") /\ Current.a <= Current.b /\ ByRunCycle)
            => /\ ~panicked'
               /\ memory'[RANDOM_REGISTER] \in 0..255
               /\ \E num \in Current.a..Current.b :
                      (num - memory'[RANDOM_REGISTER]) % 256 = 0
        /\ (Executing("Load") /\ Current.a = RANDOM_REGISTER /\ ByRunCycle)
            => stack' = Append(stack, memory[RANDOM_REGISTER])
      ]_vars

\* C12 witness: RandomNum(71, 72) drew the upper end of its range and
\* Load(0xFFF2) pushed it
C12_Witness ==
    /\ program = RandomByte
    /\ pc = 2
    /\ memory[RANDOM_REGISTER] = 72
    /\ stack # <<>>
    /\ Top(stack) = 72
    /\ last_op = "run_cycle"

\* the two's-complement wrapping result of an arithmetic instruction on
\* (a, b), b # 0 for Div and Mod
WrappingResult(op, a, b) ==
    CASE op = "Add" -> WrapAdd(a, b)
      [] op = "Sub" -> WrapSub(a, b)
      [] op = "Mul" -> WrapMul(a, b)
      [] op = "Div" -> IF a = I32Min /\ b = -1 THEN I32Min ELSE TruncDiv(a, b)
      [] op = "Mod" -> IF a = I32Min /\ b = -1 THEN 0 ELSE TruncRem(a, b)

\* C13: Add, Sub or Mul, or Div / Mod with a nonzero divisor, executed on at
\* least two operands a (below) and b (top), replaces them by the wrapping
\* result of the operation, and never faults or halts.
C13_ArithmeticWraps ==
    [][ ( /\ \E op \in {"Add", "Sub", "Mul", "Div", "Mod"} : Executing(op)
          /\ Len(stack) >= 2
          /\ (Current.op \in {"Div", "Mod"} => Top(stack) # 0)
          /\ ByRunCycle )
            => /\ ~panicked'
               /\ ~halted'
               /\ stack' = Append(SubSeq(stack, 1, Len(stack) - 2),
                                   WrappingResult(Current.op,
                                                  stack[Len(stack) - 1],
                                                  Top(stack)))
      ]_vars

\* C14: the input register reads the argument of the latest set_input (0 if
\* none): Load(0xFFF0) pushes it, and no operation other than set_input
\* changes what the register reads, a Store or LoadImmediate to 0xFFF0
\* included.
C14_InputRegisterReadsLatestInput ==
    /\ [](read_memory(INPUT_REGISTER) = latest_input)
    /\ [][ /\ (Executing("Load") /\ Current.a = INPUT_REGISTER /\ ByRunCycle)
               => stack' = Append(stack, latest_input)
           /\ last_op' # "set_input"
               => read_memory(INPUT_REGISTER)' = read_memory(INPUT_REGISTER)
         ]_vars

\* C14 witness: InputPoke has written 10 and then 1 at 0xFFF0 and its
\* second Load(0xFFF0) has pushed the input code 0, no input having been set
C14_Witness ==
    /\ program = InputPoke
    /\ pc = 6
    /\ memory[INPUT_REGISTER] = 1
    /\ latest_input = INPUT_NONE
    /\ stack = <<INPUT_NONE>>
    /\ last_op = "run_cycle"

\* the address is in range and is not one of the registers 0xFFF0..0xFFF3
PlainAddress(addr) ==
    /\ addr < MEMORY_SIZE
    /\ addr \notin {INPUT_REGISTER, OUTPUT_REGISTER, RANDOM_REGISTER,
                     TIMER_REGISTER}

\* C15: Store(a) at a plain address leaves memory[a] equal to the popped
\* value modulo 256, and Load(a) pushes memory[a]; so StoreLoad, having
\* executed Push(-249); Store(0x100); Load(0x100), holds 7 = -249 mod 256 in
\* memory[0x100] and on top of the stack, and ScenarioB leaves
\* memory[0x100] = 7 after its four instructions.
C15_StoreLoadRoundTrip ==
    /\ [][ /\ ( /\ Executing("Store") /\ stack # <<>>
                 /\ PlainAddress(Current.a) /\ ByRunCycle )
               => /\ memory'[Current.a] = Top(stack) % 256
                  /\ stack' = Front(stack)
           /\ (Executing("Load") /\ PlainAddress(Current.a) /\ ByRunCycle)
               => /\ stack' = Append(stack, memory[Current.a])
                  /\ memory[Current.a] \in 0..255
                  /\ memory' = memory
         ]_vars
    /\ []((program = StoreLoad /\ pc = 3 /\ last_op = "run_cycle")
            => (memory[256] = 7 /\ Top(stack) = 7))
    /\ []((program = ScenarioB /\ pc = 4) => memory[256] = 7)

\* C15 witness: StoreLoad has stored -249 at 0x100 and loaded it back as 7
C15_Witness ==
    /\ program = StoreLoad
    /\ pc = 3
    /\ memory[256] = 7
    /\ stack = <<7>>
    /\ last_op = "run_cycle"

\* C16: once halted, run_cycle, vblank_interrupt, update_timer and
\* set_input leave halted true and change no state of the VM; only
\* load_program makes halted false again.
C16_HaltedIsFinal ==
    [][ /\ (halted /\ last_op' # "load_program")
            => (halted' /\ UNCHANGED vmvars)
        /\ (halted /\ ~halted') => last_op' = "load_program"
      ]_vars

\* C17: every run_cycle that executes an instruction sets the program
\* counter to addr for Jump(addr), Call(addr) and a JumpIf(addr) that pops
\* a nonzero value, to the popped return address for Ret with a non-empty
\* call stack, leaves it unchanged for Halt, and sets it to pc + 1 in every
\* other case.
C17_ProgramCounterMoves ==
    [][ (~halted /\ pc < Len(program) /\ ByRunCycle) =>
            pc' = CASE Current.op \in {"Jump", "Call"} -> Current.a
                    [] Current.op = "JumpIf" ->
                          IF stack # <<>> /\ Top(stack) # 0
                          THEN Current.a ELSE pc + 1
                    [] Current.op = "Ret" ->
                          IF call_stack # <<>>
                          THEN Top(call_stack) ELSE pc + 1
                    [] Current.op = "Halt" -> pc
                    [] OTHER -> pc + 1
      ]_vars

\* C18: Ret executed on an empty call stack leaves the call stack empty
\* and the operand stack and the memory unchanged, does not halt, and sets
\* the program counter to pc + 1.
C18_RetOnEmptyFallsThrough ==
    [][ (Executing("Ret") /\ call_stack = <<>> /\ ByRunCycle) =>
            /\ call_stack' = <<>>
            /\ UNCHANGED <<stack, memory>>
            /\ ~halted'
            /\ ~panicked'
            /\ pc' = pc + 1
      ]_vars

\* C18 witness: the Ret of RetEmpty has run on an empty call stack
C18_Witness ==
    /\ program = RetEmpty
    /\ pc = 1
    /\ call_stack = <<>>
    /\ ~halted
    /\ last_op = "run_cycle"

\* C20: load_program sets the program to its argument, pc to 0 and halted
\* to false, and leaves memory, the operand stack, the call stack, the
\* timer, screen_dirty and the input state as they were.
C20_LoadProgramFrame ==
    [][ last_op' = "load_program" =>
            /\ program' \in Programs
            /\ pc' = 0
            /\ ~halted'
            /\ UNCHANGED <<memory, stack, call_stack, timer, screen_dirty,
                           input_state>>
      ]_vars

\* C20 witness: a program was loaded over one that had left an operand, a
\* return address and a halted VM behind
C20_Witness ==
    /\ last_op = "load_program"
    /\ loads = 2
    /\ stack # <<>>
    /\ call_stack # <<>>
    /\ pc = 0
    /\ ~halted

====
